---- MODULE Spec2Model ----
(***************************************************************************)
(* Request/response correlation over publish/subscribe, as implemented by  *)
(* src/src/redis-query.js (query, queryListen, connectRedis).              *)
(*                                                                         *)
(* One process hosts the module: its two redis clients (pub, sub), the     *)
(* module variables `connected` and `messageId`, any number of concurrent  *)
(* query() calls and the queryListen() binding.  The broker and the redis  *)
(* client are the environment: every client command (connect, subscribe,   *)
(* unsubscribe, publish) completes later, with success or with failure.    *)
(*                                                                         *)
(* SpecDownload adds the caller of the file service, GET /download/:id of  *)
(* src/unnamed/part_000 and src/src/index.ts; SpecNames runs the request   *)
(* path under service and event names that may contain ':'.                *)
(***************************************************************************)
EXTENDS Integers, Sequences, FiniteSets, TLC

\* ------------------------------------------------------------------ bounds
MaxTimeoutMs == 1    \* largest timeoutMs argument, in clock ticks
MaxExtra == 1        \* deliveries beyond the handlers' replies: redeliveries
                     \* by the broker and messages of other publishers

\* The calls of query() the process makes, in the order it makes them.
Calls == {1, 2}
Listener == 0        \* the callback queryListen registers (src l.85)

\* ------------------------------------------------------------- data domain
\* Values a handler may return: a boolean, the object {allowed: true}, NaN
\* and a BigInt.
HandlerResults == {"true", "allowed", "NaN", "bigint"}
\* zod schemas passed as zodType: z.unknown() (the default) and z.boolean().
Schemas == {"unknown", "boolean"}

\* What the check-file-access handler of the auth service may return: the
\* contract's {allowed: true} and {allowed: false}, and a bare boolean.
AuthResults == {"allowed", "denied", "true"}
\* The schema the download route passes to query: z.boolean() in
\* src/unnamed/part_000 (l.116), z.object({allowed: z.boolean()}) in
\* src/src/index.ts (l.138).
DownloadSchemas == {"boolean", "object"}
\* The calls of query() made by a download request.
Downloads == {1}

\* Service and event names as the sequences of their ':'-free segments:
\* <<"a", "b">> is the name "a:b".
Names == {<<"a">>, <<"a", "b">>, <<"b", "c">>, <<"c">>}
Pairs == Names \X Names

Service == <<"auth">>
Event == <<"check-file-access">>

VARIABLES
    connected,   \* module variable `connected` (l.8)
    messageId,   \* module variable `messageId` (l.9)
    crashed,     \* the process died of an unhandled promise rejection
    pc,          \* per call: where the async function `query` stands
    zodType,     \* per call: the zodType argument
    settled,     \* per call: the closure variable `settled` (l.37)
    timeout,     \* per call: the timer created at l.39
    remaining,   \* per call: timeoutMs, then the ticks until the pending timer is due
    onMsg,       \* per call: where the callback onMessage stands
    msg,         \* per call: the message the onMessage call that ran got
    late,        \* per call: an onMessage call returned at l.48
    unsubs,      \* per call: unsubscribe commands issued and not completed
    subs,        \* the sub client's listeners: <<channel, callback>>
    net,         \* messages the broker has accepted and not yet delivered
    outcome,     \* per call: what the caller's promise settled with
    settleCalls, \* per call: number of resolve()/reject() calls made
    unsubCalls,  \* per call: number of sub.unsubscribe calls made
    listenCalled,\* queryListen has been called
    listenQueued,\* the listener's subscribe command waits for the connection
    handling,    \* per requestId: the listener callback's invocation
    extra,       \* redeliveries and foreign messages delivered so far
    caught,      \* the listener's catch block (l.105-107) has run
    bound,       \* <<service, event>> passed to queryListen
    asked,       \* <<service, event>> passed to query
    res          \* per call: the response of the download request making it

vars == <<connected, messageId, crashed, pc, zodType, settled, timeout,
          remaining, onMsg, msg, late, unsubs, subs, net, outcome,
          settleCalls, unsubCalls, listenCalled, listenQueued, handling, extra,
          caught, bound, asked, res>>

\* ------------------------------------------------------------ pure helpers
\* uuidv4(): a fresh identifier per call (l.32).
uuidv4(q) == ToString(q)

\* A reply channel that leaves out the request's identifier.
responseChannel_PerService(service, requestId) == <<"response">> \o service

\* `response:${service}:${requestId}` (l.33); ':' joins the segments.
responseChannel(service, requestId) == <<"response">> \o service \o <<requestId>>

\* `query:${service}:${event}` (l.34, l.83).
queryChannel(service, event) == <<"query">> \o service \o event

RequestIds == {uuidv4(q) : q \in Calls}

\* JSON.stringify of a handler result inside the response envelope (l.99).
\* NaN is written as null; a BigInt makes JSON.stringify throw.
CanStringify(v) == v # "bigint"
JSONstringify(v) ==
    CASE v = "true" -> "true"
      [] v = "allowed" -> "{\"allowed\":true}"
      [] v = "denied" -> "{\"allowed\":false}"
      [] v = "NaN" -> "null"
      [] OTHER -> "null"

\* JSON.parse(msg).data of a well-formed body (l.54-55).
JSONparse(text) ==
    CASE text = "true" -> "true"
      [] text = "{\"allowed\":true}" -> "allowed"
      [] text = "{\"allowed\":false}" -> "denied"
      [] OTHER -> "null"

\* zodType.parse(v) (l.55): z.unknown() returns any value unchanged,
\* z.boolean() returns a boolean and throws on anything else, and
\* z.object({allowed: z.boolean()}) returns an object with a boolean `allowed`.
ZodAccepts(schema, v) ==
    \/ schema = "unknown"
    \/ schema = "boolean" /\ v \in {"true", "false"}
    \/ schema = "object" /\ v \in {"allowed", "denied"}

\* A message body that is not JSON text.
Garbage == [wf |-> FALSE, data |-> "", requestId |-> "", respTo |-> <<>>, id |-> 0]

\* The request envelope (l.65-71); `date` carries no behaviour and is omitted.
RequestBody(q, id) ==
    [wf |-> TRUE, data |-> "payload" \o ToString(q), requestId |-> uuidv4(q),
     respTo |-> responseChannel(asked[1], uuidv4(q)), id |-> id]

\* A response envelope numbered by a counter of the listen path's own.
ResponseBody_OwnCounter(v, id) ==
    [wf |-> TRUE, data |-> JSONstringify(v), requestId |-> "", respTo |-> <<>>, id |-> 1]

\* The response envelope (l.99-103).
ResponseBody(v, id) ==
    [wf |-> TRUE, data |-> JSONstringify(v), requestId |-> "", respTo |-> <<>>, id |-> id]

NoMsg == [wf |-> FALSE, data |-> "none"]
NoOutcome == [kind |-> "none", value |-> ""]
\* `afterCatch` records when the request arrived: whether the listener's catch
\* block had run before.
NoHandling == [state |-> "none", respTo |-> <<>>, result |-> "", afterCatch |-> FALSE]

\* The callbacks the sub client holds for a channel.
ListenersOf(chan) == {s[2] : s \in {x \in subs : x[1] = chan}}

\* pub.publish(chan, body): the broker hands the message to the connections
\* subscribed at that moment and drops it when there is none.
Published(chan, body) ==
    IF ListenersOf(chan) # {} THEN net \cup {[chan |-> chan, body |-> body]} ELSE net

\* resolve(...) / reject(...) of the promise created at l.36: only the first
\* call decides the promise.
Decided(q, result) == IF outcome[q].kind = "none" THEN result ELSE outcome[q]


\* ------------------------------------------------------------------- state
InitProgram ==
    /\ connected = FALSE
    /\ messageId = 1
    /\ crashed = FALSE
    /\ pc = [q \in Calls |-> "idle"]
    /\ zodType = [q \in Calls |-> "unknown"]
    /\ settled = [q \in Calls |-> FALSE]
    /\ timeout = [q \in Calls |-> "none"]
    /\ remaining = [q \in Calls |-> 0]
    /\ onMsg = [q \in Calls |-> "idle"]
    /\ msg = [q \in Calls |-> NoMsg]
    /\ late = [q \in Calls |-> FALSE]
    /\ unsubs = [q \in Calls |-> 0]
    /\ subs = {}
    /\ net = {}
    /\ outcome = [q \in Calls |-> NoOutcome]
    /\ settleCalls = [q \in Calls |-> 0]
    /\ unsubCalls = [q \in Calls |-> 0]
    /\ listenCalled = FALSE
    /\ listenQueued = FALSE
    /\ handling = [r \in RequestIds |-> NoHandling]
    /\ extra = 0
    /\ caught = FALSE
    /\ res = [q \in Calls |-> "none"]

\* One service and one event: the file service asking the auth service.
Init ==
    /\ InitProgram
    /\ bound = <<Service, Event>>
    /\ asked = <<Service, Event>>

\* Any service and event names, for the listener and for the callers.
InitNames ==
    /\ InitProgram
    /\ bound \in Pairs
    /\ asked \in Pairs

\* The channel a call subscribes to and later unsubscribes from (l.33).
ChannelOf(q) == responseChannel(asked[1], uuidv4(q))

\* `if (!settled)` in the timer callback (l.40).
timeoutRuns(q) == ~settled[q]

\* onMessage without its guard.
onMessageRuns_Unguarded(q) == TRUE

\* `if (settled) return` in onMessage (l.48).
onMessageRuns(q) == ~settled[q]

\* A timer that may run its callback before the delay has elapsed.
TimerDue_Early(q) == TRUE

\* setTimeout(..., timeoutMs): the callback runs once the delay has elapsed.
TimerDue(q) == remaining[q] = 0

\* ---------------------------------------------------------------- query()
\* l.27-30: the call; with `connected` already true connectRedis returns at
\* once and the promise executor (l.36-61) runs up to `await sub.subscribe`.
\* Otherwise pub.connect() and sub.connect() are called and awaited.
Query(q, z, t) ==
    /\ ~crashed
    /\ pc[q] = "idle"
    /\ \A p \in Calls : p < q => pc[p] # "idle"
    /\ zodType' = [zodType EXCEPT ![q] = z]
    /\ remaining' = [remaining EXCEPT ![q] = t]
    /\ IF connected
          THEN /\ pc' = [pc EXCEPT ![q] = "subscribing"]
               /\ timeout' = [timeout EXCEPT ![q] = "pending"]
          ELSE /\ pc' = [pc EXCEPT ![q] = "connecting"]
               /\ UNCHANGED timeout
    /\ UNCHANGED <<bound, asked, caught, late, connected, messageId, crashed,
                   settled, onMsg, msg, unsubs,
                   subs, net, outcome, settleCalls, unsubCalls, listenCalled, listenQueued,
                   handling, extra>>

\* l.13-14 and l.30: Promise.all([pub.connect(), sub.connect()]) completes.
\* On success `connected` is set and the executor starts (l.36-61), and the
\* sub client sends a subscribe command it had queued; on failure the async
\* function query rejects with the client's error.
ConnectDone(q, ok) ==
    /\ ~crashed
    /\ pc[q] = "connecting"
    /\ IF ok
          THEN /\ connected' = TRUE
               /\ pc' = [pc EXCEPT ![q] = "subscribing"]
               /\ timeout' = [timeout EXCEPT ![q] = "pending"]
               /\ subs' = IF listenQueued
                             THEN subs \cup {<<queryChannel(bound[1], bound[2]), Listener>>}
                             ELSE subs
               /\ listenQueued' = FALSE
               /\ UNCHANGED <<outcome, settleCalls>>
          ELSE /\ pc' = [pc EXCEPT ![q] = "rejected"]
               /\ outcome' = [outcome EXCEPT ![q] = [kind |-> "transport", value |-> "connect"]]
               /\ settleCalls' = [settleCalls EXCEPT ![q] = @ + 1]
               /\ UNCHANGED <<connected, timeout, subs, listenQueued>>
    /\ UNCHANGED <<bound, asked, res, caught, late, messageId, crashed, zodType,
                   settled, remaining, onMsg, msg,
                   unsubs, net, unsubCalls, listenCalled, handling, extra>>

\* A publish that does not wait for the subscription to exist.
Subscribed_NotYet(q) == subs

\* What a completed sub.subscribe(responseChannel, onMessage) leaves in the
\* sub client (l.61).
Subscribed(q) == subs \cup {<<ChannelOf(q), q>>}

\* l.61-72: `await sub.subscribe` completes.  On success the envelope is
\* built (messageId++) and published; the executor ends when the publish
\* completes.  A failed subscribe or publish makes the async executor throw:
\* its promise is rejected with nobody listening (an unhandled rejection,
\* which ends the process or not, depending on the runtime's mode).
SubscribeDone(q, ok, pubOk, die) ==
    /\ ~crashed
    /\ pc[q] = "subscribing"
    /\ (ok /\ pubOk) => ~die
    /\ ~ok => ~pubOk
    /\ crashed' = die
    /\ IF ok
          THEN /\ messageId' = messageId + 1
               /\ IF pubOk
                     THEN /\ subs' = Subscribed(q)
                          /\ net' = Published(queryChannel(asked[1], asked[2]),
                                              RequestBody(q, messageId))
                          /\ pc' = [pc EXCEPT ![q] = "waiting"]
                     ELSE /\ subs' = Subscribed(q)
                          /\ pc' = [pc EXCEPT ![q] = "threw"]
                          /\ UNCHANGED net
          ELSE /\ pc' = [pc EXCEPT ![q] = "threw"]
               /\ UNCHANGED <<messageId, subs, net>>
    /\ UNCHANGED <<bound, asked, res, caught, late, connected, zodType, settled,
                   timeout, remaining, onMsg, msg,
                   unsubs, outcome, settleCalls, unsubCalls, listenCalled, listenQueued,
                   handling, extra>>

\* Time passes: every pending timer is one tick closer to its delay.
Tick ==
    /\ ~crashed
    /\ \E q \in Calls : timeout[q] = "pending" /\ remaining[q] > 0
    /\ remaining' = [q \in Calls |->
                        IF timeout[q] = "pending" /\ remaining[q] > 0
                           THEN remaining[q] - 1 ELSE remaining[q]]
    /\ UNCHANGED <<bound, asked, res, caught, late, connected, messageId,
                   crashed, pc, zodType, settled, timeout,
                   onMsg, msg, unsubs, subs, net, outcome, settleCalls,
                   unsubCalls, listenCalled, listenQueued, handling, extra>>

\* The timer callback without its sub.unsubscribe call.
TimeoutFire_NoCleanup(q) ==
    /\ ~crashed
    /\ timeout[q] = "pending"
    /\ TimerDue(q)
    /\ timeout' = [timeout EXCEPT ![q] = "fired"]
    /\ IF timeoutRuns(q)
          THEN /\ settled' = [settled EXCEPT ![q] = TRUE]
               /\ outcome' = [outcome EXCEPT ![q] =
                                 Decided(q, [kind |-> "timeout", value |-> ""])]
               /\ settleCalls' = [settleCalls EXCEPT ![q] = @ + 1]
          ELSE UNCHANGED <<settled, outcome, settleCalls>>
    /\ UNCHANGED <<bound, asked, res, caught, late, connected, messageId,
                   crashed, pc, zodType, remaining, onMsg,
                   msg, subs, net, listenCalled, listenQueued, handling, extra,
                   unsubs, unsubCalls>>

\* l.39-45: the timer callback.
TimeoutFire(q) ==
    /\ ~crashed
    /\ timeout[q] = "pending"
    /\ TimerDue(q)
    /\ timeout' = [timeout EXCEPT ![q] = "fired"]
    /\ IF timeoutRuns(q)
          THEN /\ settled' = [settled EXCEPT ![q] = TRUE]
               /\ unsubs' = [unsubs EXCEPT ![q] = @ + 1]
               /\ unsubCalls' = [unsubCalls EXCEPT ![q] = @ + 1]
               /\ outcome' = [outcome EXCEPT ![q] =
                                 Decided(q, [kind |-> "timeout", value |-> ""])]
               /\ settleCalls' = [settleCalls EXCEPT ![q] = @ + 1]
          ELSE UNCHANGED <<settled, unsubs, unsubCalls, outcome, settleCalls>>
    /\ UNCHANGED <<bound, asked, res, caught, late, connected, messageId,
                   crashed, pc, zodType, remaining, onMsg,
                   msg, subs, net, listenCalled, listenQueued, handling, extra>>

\* onMessage(msg), l.47-51, called by the sub client for every listener it
\* holds for the channel; each call runs up to `await sub.unsubscribe`.
OnMessage(chan, body) ==
    LET run == {q \in ListenersOf(chan) \cap Calls : onMessageRuns(q)} IN
       /\ settled' = [q \in Calls |-> settled[q] \/ q \in run]
       /\ timeout' = [q \in Calls |->
                         IF q \in run /\ timeout[q] = "pending"
                            THEN "cleared" ELSE timeout[q]]
       /\ remaining' = [q \in Calls |-> IF q \in run THEN 0 ELSE remaining[q]]
       /\ onMsg' = [q \in Calls |-> IF q \in run THEN "unsubscribing" ELSE onMsg[q]]
       /\ msg' = [q \in Calls |-> IF q \in run THEN [wf |-> body.wf, data |-> body.data] ELSE msg[q]]
       /\ late' = [q \in Calls |->
                       late[q] \/ (q \in ListenersOf(chan) /\ ~onMessageRuns(q))]
       /\ unsubs' = [q \in Calls |-> IF q \in run THEN unsubs[q] + 1 ELSE unsubs[q]]
       /\ unsubCalls' = [q \in Calls |->
                            IF q \in run THEN unsubCalls[q] + 1 ELSE unsubCalls[q]]

\* The broker delivers a message of a reply channel to the sub client.  With
\* `keep` the broker delivers it again later (at-least-once delivery).
Deliver(m, keep) ==
    /\ ~crashed
    /\ m \in net
    /\ m.chan[1] = "response"
    /\ keep => extra < MaxExtra
    /\ extra' = IF keep THEN extra + 1 ELSE extra
    /\ net' = IF keep THEN net ELSE net \ {m}
    /\ OnMessage(m.chan, m.body)
    /\ UNCHANGED <<bound, asked, res, caught, connected, messageId, crashed, pc,
                   zodType, subs,
                   outcome, settleCalls, listenCalled, listenQueued, handling>>

\* Another client of the broker publishes text that is not JSON on the reply
\* channel of a call while it is subscribed, and the broker delivers it.
ForeignDeliver(q) ==
    /\ ~crashed
    /\ extra < MaxExtra
    /\ q \in ListenersOf(ChannelOf(q))
    /\ extra' = extra + 1
    /\ OnMessage(ChannelOf(q), Garbage)
    /\ UNCHANGED <<bound, asked, res, caught, connected, messageId, crashed, pc,
                   zodType, subs,
                   net, outcome, settleCalls, listenCalled, listenQueued, handling>>

\* l.53-58: what onMessage settles the promise with once its unsubscribe has
\* completed.
Parsed(q) ==
    IF msg[q].wf /\ ZodAccepts(zodType[q], JSONparse(msg[q].data))
       THEN [kind |-> "resolved", value |-> JSONparse(msg[q].data)]
       ELSE [kind |-> "decode", value |-> ""]

\* A sub.unsubscribe(responseChannel) command completes (l.42, l.51); the
\* client sends commands in the order they were issued, so it completes
\* after the subscribe of the same call.  The timer path ignores the result
\* (`.catch(() => {})`); onMessage awaits it and goes on to l.53-58, or
\* throws when it failed: a rejection of the promise of onMessage, which
\* nobody handles.
UnsubscribeDone(q, ok, die) ==
    /\ ~crashed
    /\ unsubs[q] > 0
    /\ pc[q] # "subscribing"
    /\ die => (~ok /\ onMsg[q] = "unsubscribing")
    /\ crashed' = die
    /\ unsubs' = [unsubs EXCEPT ![q] = @ - 1]
    /\ subs' = IF ok THEN {s \in subs : s[1] # ChannelOf(q)} ELSE subs
    /\ IF onMsg[q] = "unsubscribing"
          THEN IF ok
                  THEN /\ onMsg' = [onMsg EXCEPT ![q] = "done"]
                       /\ outcome' = [outcome EXCEPT ![q] = Decided(q, Parsed(q))]
                       /\ settleCalls' = [settleCalls EXCEPT ![q] = @ + 1]
                  ELSE /\ onMsg' = [onMsg EXCEPT ![q] = "threw"]
                       /\ UNCHANGED <<outcome, settleCalls>>
          ELSE UNCHANGED <<onMsg, outcome, settleCalls>>
    /\ UNCHANGED <<bound, asked, res, caught, late, connected, messageId, pc,
                   zodType, settled, timeout,
                   remaining, msg, net, unsubCalls, listenCalled, listenQueued, handling,
                   extra>>

\* ---------------------------------------------------------- queryListen()
\* l.82-85: sub.subscribe(channel, callback), neither awaited nor caught;
\* queryListen does not call connectRedis.  On a connected client the
\* listener is subscribed.  On a client that is not connected the redis
\* client either rejects the command (an unhandled rejection) or keeps it
\* queued until the client connects.
QueryListen(die, queue) ==
    /\ ~crashed
    /\ ~listenCalled
    /\ connected => (~die /\ ~queue)
    /\ queue => ~die
    /\ listenCalled' = TRUE
    /\ listenQueued' = queue
    /\ crashed' = die
    /\ subs' = IF connected
                  THEN subs \cup {<<queryChannel(bound[1], bound[2]), Listener>>}
                  ELSE subs
    /\ UNCHANGED <<bound, asked, res, caught, late, connected, messageId, pc,
                   zodType, settled, timeout,
                   remaining, onMsg, msg, unsubs, net, outcome, settleCalls,
                   unsubCalls, handling, extra>>

\* l.85-95: the callback queryListen registered gets a message: it parses it
\* and calls the handler; text that is not JSON makes JSON.parse throw
\* (l.87), which the catch block logs (l.105-107).
ListenerCallback(body) ==
    IF body.wf
       THEN /\ handling' = [handling EXCEPT ![body.requestId] =
                               [state |-> "running", respTo |-> body.respTo,
                                result |-> "",
                                afterCatch |-> caught]]
            /\ UNCHANGED caught
       ELSE /\ caught' = TRUE
            /\ UNCHANGED handling

\* A listener that takes the next request only once no handler is pending.
ListenerReceive_OneAtATime(m) ==
    /\ ~crashed
    /\ m \in net
    /\ m.chan[1] = "query"
    /\ \A r \in RequestIds : handling[r].state # "running"
    /\ net' = net \ {m}
    /\ IF Listener \in ListenersOf(m.chan)
          THEN ListenerCallback(m.body)
          ELSE UNCHANGED <<handling, caught>>
    /\ UNCHANGED <<bound, asked, res, late, connected, messageId, crashed, pc,
                   zodType, settled, timeout,
                   remaining, onMsg, msg, unsubs, subs, outcome, settleCalls,
                   unsubCalls, listenCalled, listenQueued, extra>>

\* The broker delivers a request to the sub client, which calls the listener
\* callback when it holds one for the channel.
ListenerReceive(m) ==
    /\ ~crashed
    /\ m \in net
    /\ m.chan[1] = "query"
    /\ net' = net \ {m}
    /\ IF Listener \in ListenersOf(m.chan)
          THEN ListenerCallback(m.body)
          ELSE UNCHANGED <<handling, caught>>
    /\ UNCHANGED <<bound, asked, res, late, connected, messageId, crashed, pc,
                   zodType, settled, timeout,
                   remaining, onMsg, msg, unsubs, subs, outcome, settleCalls,
                   unsubCalls, listenCalled, listenQueued, extra>>

\* Another client of the broker publishes text that is not JSON on the query
\* channel while the listener is subscribed, and the broker delivers it.
ForeignRequest ==
    /\ ~crashed
    /\ extra < MaxExtra
    /\ Listener \in ListenersOf(queryChannel(bound[1], bound[2]))
    /\ extra' = extra + 1
    /\ ListenerCallback(Garbage)
    /\ UNCHANGED <<bound, asked, res, late, connected, messageId, crashed, pc,
                   zodType, settled, timeout,
                   remaining, onMsg, msg, unsubs, subs, net, outcome, settleCalls,
                   unsubCalls, listenCalled, listenQueued>>

\* l.89 and l.97-104: the handler returns v; the envelope object is built
\* (messageId++), stringified and published on parsed.responseChannel.  A
\* failing JSON.stringify or publish is caught at l.105.
HandlerReturn(r, v, pubOk) ==
    /\ ~crashed
    /\ handling[r].state = "running"
    /\ pubOk => CanStringify(v)
    /\ messageId' = messageId + 1
    /\ IF pubOk
          THEN /\ net' = Published(handling[r].respTo, ResponseBody(v, messageId))
               /\ handling' = [handling EXCEPT ![r] =
                                  [@ EXCEPT !.state = "done", !.result = v]]
               /\ UNCHANGED caught
          ELSE /\ handling' = [handling EXCEPT ![r] =
                                  [@ EXCEPT !.state = "failed"]]
               /\ caught' = TRUE
               /\ UNCHANGED net
    /\ UNCHANGED <<bound, asked, res, late, connected, crashed, pc, zodType,
                   settled, timeout, remaining,
                   onMsg, msg, unsubs, subs, outcome, settleCalls, unsubCalls,
                   listenCalled, listenQueued, extra>>

\* A listener callback without its try/catch: the handler's error is an
\* unhandled rejection.
HandlerThrow_Uncaught(r) ==
    /\ ~crashed
    /\ handling[r].state = "running"
    /\ handling' = [handling EXCEPT ![r] =
                       [@ EXCEPT !.state = "failed"]]
    /\ crashed' = TRUE
    /\ UNCHANGED <<bound, asked, res, late, connected, messageId, pc, zodType,
                   settled, timeout,
                   remaining, onMsg, msg, unsubs, subs, net, outcome,
                   settleCalls, unsubCalls, listenCalled, listenQueued, extra, caught>>

\* A catch block that reports the handler's error to the caller.
HandlerThrow_RepliesError(r) ==
    /\ ~crashed
    /\ handling[r].state = "running"
    /\ handling' = [handling EXCEPT ![r] =
                       [@ EXCEPT !.state = "failed"]]
    /\ caught' = TRUE
    /\ messageId' = messageId + 1
    /\ net' = Published(handling[r].respTo, ResponseBody("NaN", messageId))
    /\ UNCHANGED <<bound, asked, res, late, connected, crashed, pc, zodType,
                   settled, timeout,
                   remaining, onMsg, msg, unsubs, subs, outcome,
                   settleCalls, unsubCalls, listenCalled, listenQueued, extra>>

\* l.89 and l.105-107: the handler throws or its promise rejects; the catch
\* block logs the error.
HandlerThrow(r) ==
    /\ ~crashed
    /\ handling[r].state = "running"
    /\ handling' = [handling EXCEPT ![r] =
                       [@ EXCEPT !.state = "failed"]]
    /\ caught' = TRUE
    /\ UNCHANGED <<bound, asked, res, late, connected, messageId, crashed, pc,
                   zodType, settled, timeout,
                   remaining, onMsg, msg, unsubs, subs, net, outcome,
                   settleCalls, unsubCalls, listenCalled, listenQueued, extra>>

\* ------------------------------------------------- GET /download/:id
\* `result?.allowed === true` (src/unnamed/part_000 l.118), `if
\* (result.allowed)` (src/src/index.ts l.141): true of {allowed: true} only.
Allowed(result) == result = "allowed"

\* part_000 l.101-117: the route checks the x-session-id header (401 when it
\* is missing) and calls query(AUTH_REDIS_NAME, 'check-file-access',
\* {sessionId, fileId}, schema, 1000).
DownloadStart(q, schema, hasSession, t) ==
    /\ ~crashed
    /\ res[q] = "none"
    /\ IF hasSession
          THEN /\ res' = [res EXCEPT ![q] = "pending"]
               /\ Query(q, schema, t)
          ELSE /\ res' = [res EXCEPT ![q] = "401"]
               /\ UNCHANGED <<connected, messageId, crashed, pc, zodType, settled,
                              timeout, remaining, onMsg, msg, late, unsubs, subs,
                              net, outcome, settleCalls, unsubCalls, listenCalled, listenQueued,
                              handling, extra, caught, bound, asked>>

\* A route that lets the download through when the access check fails.
DownloadFinish_FailOpen(q, found) ==
    /\ ~crashed
    /\ res[q] = "pending"
    /\ outcome[q].kind # "none"
    /\ LET allowed == outcome[q].kind # "resolved" \/ Allowed(outcome[q].value) IN
          res' = [res EXCEPT ![q] =
                     IF ~allowed THEN "403" ELSE IF found THEN "file" ELSE "404"]
    /\ UNCHANGED <<connected, messageId, crashed, pc, zodType, settled,
                   timeout, remaining, onMsg, msg, late, unsubs, subs,
                   net, outcome, settleCalls, unsubCalls, listenCalled, listenQueued,
                   handling, extra, caught, bound, asked>>

\* part_000 l.118-130: the awaited query has settled.  A rejection is caught
\* and logged with `allowed` left false; without `allowed` the route answers
\* 403, otherwise it looks the file up and answers 404 or sends the file.
DownloadFinish(q, found) ==
    /\ ~crashed
    /\ res[q] = "pending"
    /\ outcome[q].kind # "none"
    /\ LET allowed == outcome[q].kind = "resolved" /\ Allowed(outcome[q].value) IN
          res' = [res EXCEPT ![q] =
                     IF ~allowed THEN "403" ELSE IF found THEN "file" ELSE "404"]
    /\ UNCHANGED <<connected, messageId, crashed, pc, zodType, settled,
                   timeout, remaining, onMsg, msg, late, unsubs, subs,
                   net, outcome, settleCalls, unsubCalls, listenCalled, listenQueued,
                   handling, extra, caught, bound, asked>>

\* The broker delivers one of the messages in flight.
DeliverReply == \E m \in net, keep \in BOOLEAN : Deliver(m, keep)
DeliverRequest == \E m \in net : ListenerReceive(m)

\* Some code of the process calls query().
Caller ==
    \E q \in Calls, z \in Schemas, t \in 1..MaxTimeoutMs :
        Query(q, z, t) /\ UNCHANGED res

Next ==
    \/ Caller
    \/ \E q \in Calls, ok \in BOOLEAN : ConnectDone(q, ok)
    \/ \E q \in Calls, ok, pubOk, die \in BOOLEAN : SubscribeDone(q, ok, pubOk, die)
    \/ Tick
    \/ \E q \in Calls : TimeoutFire(q)
    \/ DeliverReply
    \/ \E q \in Calls : ForeignDeliver(q)
    \/ \E q \in Calls, ok, die \in BOOLEAN : UnsubscribeDone(q, ok, die)
    \/ \E die, queue \in BOOLEAN : QueryListen(die, queue)
    \/ DeliverRequest
    \/ ForeignRequest
    \/ \E r \in RequestIds, v \in HandlerResults, pubOk \in BOOLEAN : HandlerReturn(r, v, pubOk)
    \/ \E r \in RequestIds : HandlerThrow(r)

Spec == Init /\ [][Next]_vars

\* The file service: the process's queries are those of its download
\* requests, answered by the check-file-access handler.
NextDownload ==
    \/ \E q \in Downloads, z \in DownloadSchemas, h \in BOOLEAN, t \in 1..MaxTimeoutMs :
          DownloadStart(q, z, h, t)
    \/ \E q \in Downloads, found \in BOOLEAN : DownloadFinish(q, found)
    \/ \E q \in Calls, ok \in BOOLEAN : ConnectDone(q, ok)
    \/ \E q \in Calls, ok, pubOk, die \in BOOLEAN : SubscribeDone(q, ok, pubOk, die)
    \/ Tick
    \/ \E q \in Calls : TimeoutFire(q)
    \/ DeliverReply
    \/ \E q \in Calls : ForeignDeliver(q)
    \/ \E q \in Calls, ok, die \in BOOLEAN : UnsubscribeDone(q, ok, die)
    \/ \E die, queue \in BOOLEAN : QueryListen(die, queue)
    \/ DeliverRequest
    \/ ForeignRequest
    \/ \E r \in RequestIds, v \in AuthResults, pubOk \in BOOLEAN : HandlerReturn(r, v, pubOk)
    \/ \E r \in RequestIds : HandlerThrow(r)

SpecDownload == Init /\ [][NextDownload]_vars

\* Requests on their way from callers to the listener, under any names.
NextNames ==
    \/ Caller
    \/ \E q \in Calls, ok \in BOOLEAN : ConnectDone(q, ok)
    \/ \E q \in Calls, ok, pubOk, die \in BOOLEAN : SubscribeDone(q, ok, pubOk, die)
    \/ \E die, queue \in BOOLEAN : QueryListen(die, queue)
    \/ DeliverRequest

SpecNames == InitNames /\ [][NextNames]_vars

TypeOK ==
    /\ connected \in BOOLEAN
    /\ messageId \in 1..(2 * Cardinality(Calls) + 1)
    /\ \A q \in Calls : unsubs[q] \in 0..1 /\ remaining[q] \in 0..MaxTimeoutMs
    /\ listenCalled \in BOOLEAN /\ listenQueued \in BOOLEAN /\ caught \in BOOLEAN
    /\ \A q \in Calls : res[q] \in {"none", "pending", "401", "403", "404", "file"}

\* ================================================================= claims
Started(q) == pc[q] \in {"subscribing", "waiting", "threw"}
HandlingOf(q) == handling[uuidv4(q)]
Subscription(q) == q \in ListenersOf(ChannelOf(q))

\* C1: in every interleaving of reply deliveries (duplicates and late
\* replies included) and the firing of the deadline timer, resolve and
\* reject are called at most once per query, and its reply channel is
\* unsubscribed at most once.
C1_SettledAtMostOnce ==
    \A q \in Calls : settleCalls[q] <= 1 /\ unsubCalls[q] <= 1

\* C1 witness: a reply reached onMessage after the timer had settled the
\* query, and the query stayed settled once.
C1_Witness ==
    \E q \in Calls :
        /\ late[q]
        /\ outcome[q].kind = "timeout"
        /\ settleCalls[q] = 1
        /\ unsubCalls[q] = 1

\* C2 (as claimed): whatever the transport does, a query whose executor has
\* run settles: once its timer is no longer pending and no onMessage call is
\* in progress, nothing is left that could settle it, so it has an outcome.
C2_EverySettles ==
    \A q \in Calls :
        (/\ ~crashed
         /\ pc[q] \in {"waiting", "threw"}
         /\ timeout[q] # "pending"
         /\ onMsg[q] # "unsubscribing") => outcome[q].kind # "none"

\* C3: a caller is settled only by the response the handler produced for
\* its own request: the well-formed message its onMessage got is the
\* encoding of that handler result, and a resolved value is its decoding.
C3_NoCrossDelivery ==
    \A q \in Calls :
        /\ msg[q].wf =>
              /\ HandlingOf(q).state = "done"
              /\ msg[q].data = JSONstringify(HandlingOf(q).result)
        /\ outcome[q].kind = "resolved" =>
              /\ msg[q].wf
              /\ outcome[q].value = JSONparse(msg[q].data)

\* C3 witness: two queries in flight together, the later one resolved with
\* its own response while the handler of the earlier one is still running.
C3_Witness ==
    /\ pc[1] = "waiting" /\ HandlingOf(1).state = "running"
    /\ outcome[1].kind = "none"
    /\ outcome[2].kind = "resolved" /\ HandlingOf(2).state = "done"

\* What onMessage got is a reply it cannot accept: text that is not JSON, or
\* data the schema rejects.
Malformed(q) ==
    /\ msg[q] # NoMsg
    /\ ~(msg[q].wf /\ ZodAccepts(zodType[q], JSONparse(msg[q].data)))

\* The sub.unsubscribe command of a query has completed with an error: the
\* listener is still there.
UnsubscribeFailed(q) == unsubCalls[q] > 0 /\ unsubs[q] = 0 /\ Subscription(q)

\* C4 (as claimed): when the reply of the registered handler is the message
\* onMessage got before the timer fired, and the schema accepts it, the
\* query resolves with the handler's value as the schema accepted it.
C4_ReplyResolves ==
    \A q \in Calls :
        (/\ msg[q].wf
         /\ HandlingOf(q).state = "done"
         /\ msg[q].data = JSONstringify(HandlingOf(q).result)
         /\ ZodAccepts(zodType[q], JSONparse(msg[q].data))
         /\ onMsg[q] # "unsubscribing")
        => outcome[q] = [kind |-> "resolved",
                         value |-> JSONparse(JSONstringify(HandlingOf(q).result))]

\* C5 (as claimed): a query that no reply reaches receives the timeout
\* rejection: whenever such a query has an outcome, it is the timeout.
C5_NoReplyMeansTimeout ==
    \A q \in Calls :
        (msg[q] = NoMsg /\ ~late[q] /\ outcome[q].kind # "none")
        => outcome[q].kind = "timeout"

\* C5 (amended): a query whose connect step succeeded has a deadline timer;
\* the timeout rejection is made by that timer's callback, once timeoutMs
\* has elapsed and never before; only a delivered message cancels the
\* timer, and a pending timer of a live process can always go on to fire;
\* so a query no message reaches has no outcome but the timeout.  A query
\* whose connect step failed is rejected with the connect error instead.
C5_TimeoutAtDeadline ==
    \A q \in Calls :
        /\ Started(q) => timeout[q] # "none"
        /\ outcome[q].kind = "timeout" => (timeout[q] = "fired" /\ remaining[q] = 0)
        /\ timeout[q] = "fired" => outcome[q].kind = "timeout"
        /\ timeout[q] = "cleared" => msg[q] # NoMsg
        /\ (timeout[q] = "pending" /\ ~crashed) => ENABLED (Tick \/ TimeoutFire(q))
        /\ (Started(q) /\ msg[q] = NoMsg) => outcome[q].kind \in {"none", "timeout"}
        /\ outcome[q].kind = "transport" <=> pc[q] = "rejected"

\* C5 witness: no handler is running or has replied for the query, no
\* message reached it, and it was rejected with the timeout.
C5_Witness ==
    \E q \in Calls :
        /\ outcome[q].kind = "timeout"
        /\ msg[q] = NoMsg /\ ~late[q]
        /\ HandlingOf(q).state \in {"none", "running"}

C7_SubscribedBeforePublish ==
    \A q \in Calls :
        (\/ HandlingOf(q).state # "none"
         \/ \E m \in net : m.chan[1] = "query" /\ m.body.requestId = uuidv4(q))
        => /\ pc[q] = "waiting"
           /\ Subscription(q) \/ settled[q]

\* C7 witness: the handler replied while the caller was subscribed, and the
\* caller was resolved by that reply.
C7_Witness ==
    \E q \in Calls :
        /\ HandlingOf(q).state = "done"
        /\ outcome[q].kind = "resolved"
        /\ timeout[q] = "cleared"

\* C8 (as claimed): when the message onMessage got is not JSON or fails the
\* schema, the query is rejected with the decode error; it does not stay
\* unsettled.
C8_MalformedIsRejected ==
    \A q \in Calls :
        (Malformed(q) /\ onMsg[q] # "unsubscribing") => outcome[q].kind = "decode"

\* C9 (as claimed): a failure of the subscribe or publish call is reported
\* to the caller as a transport error: a query whose executor failed on one
\* of them is never given an outcome of another kind.
C9_TransportErrorReported ==
    \A q \in Calls :
        (pc[q] = "threw" /\ outcome[q].kind # "none") => outcome[q].kind = "transport"

\* C10 (as claimed): on both settlement paths an error of unsubscribe is
\* swallowed and the caller still receives the outcome of that path.
C10_UnsubscribeErrorSwallowed ==
    \A q \in Calls :
        UnsubscribeFailed(q)
        => /\ onMsg[q] # "threw"
           /\ outcome[q].kind \in {"resolved", "decode", "timeout"}

\* C11 (as claimed): connecting is idempotent under concurrency: pub.connect()
\* and sub.connect() are each called once, so no two calls of query are
\* awaiting a Promise.all([pub.connect(), sub.connect()]) of their own at the
\* same time.
C11_ConnectedOnce ==
    Cardinality({q \in Calls : pc[q] = "connecting"}) <= 1

\* The queryListen binding is in place.
Listening == Listener \in ListenersOf(queryChannel(bound[1], bound[2]))

\* C12: a failure while handling one inbound request (text that is not
\* JSON, a handler that throws or rejects, a reply that cannot be encoded or
\* published) is caught for that message and never ends the listener: the
\* step leaves the process alive with the catch block run, the binding is
\* never removed, and every request the broker delivers, whatever failed
\* before, is passed to the handler.
C12_FailureIsPerMessage ==
    [][/\ Listening => Listening'
       /\ \A r \in RequestIds :
             (handling[r].state = "running" /\ handling'[r].state = "failed")
             => (~crashed' /\ caught')
       /\ (caught' /\ ~caught) => ~crashed'
       /\ \A m \in net :
             (m.chan[1] = "query" /\ m \notin net')
             => handling'[m.body.requestId].state = "running"]_vars

\* C12 witness: a request that arrived after the catch block had run was
\* handled and answered, and its caller was resolved by the answer.
C12_Witness ==
    \E q \in Calls :
        /\ HandlingOf(q).afterCatch
        /\ HandlingOf(q).state = "done"
        /\ outcome[q].kind = "resolved"

\* C13: when the handler throws or rejects, or its result cannot be encoded
\* (or published), the responder publishes nothing on the reply channel: no
\* message for that channel is in flight and none of the responder's reached
\* the caller, who is never resolved; a caller whom no other publisher's
\* text reached either is still waiting on its pending timer or has been
\* rejected with the timeout, and a due timer can fire.
C13_FailureMeansTimeout ==
    \A q \in Calls :
        HandlingOf(q).state = "failed"
        => /\ \A m \in net : m.chan # ChannelOf(q)
           /\ ~msg[q].wf
           /\ outcome[q].kind # "resolved"
           /\ msg[q] = NoMsg
              => /\ outcome[q].kind \in {"none", "timeout"}
                 /\ timeout[q] \in {"pending", "fired"}
                 /\ timeout[q] = "fired" <=> outcome[q].kind = "timeout"
                 /\ (~crashed /\ timeout[q] = "pending" /\ TimerDue(q))
                    => ENABLED TimeoutFire(q)

\* C13 witness: the handler failed on a caller's request, nothing reached
\* the caller, and the caller was rejected with the timeout.
C13_Witness ==
    \E q \in Calls :
        /\ HandlingOf(q).state = "failed"
        /\ msg[q] = NoMsg
        /\ ~late[q]
        /\ outcome[q].kind = "timeout"

\* C14: inbound requests of one binding are handled independently and
\* concurrently: while the process lives, a request in flight can be passed
\* to the handler and a pending handler can return and have its reply
\* published whatever the other invocations are doing, and a step of one
\* invocation leaves every other invocation as it was; replies can so be
\* published in another order than the requests arrived.
C14_HandledConcurrently ==
    /\ [](~crashed =>
            /\ \A m \in net : m.chan[1] = "query" => ENABLED ListenerReceive(m)
            /\ \A r \in RequestIds :
                  handling[r].state = "running"
                  => /\ ENABLED HandlerReturn(r, "true", TRUE)
                     /\ ENABLED HandlerThrow(r))
    /\ [][\A r1, r2 \in RequestIds :
             (r1 # r2 /\ handling'[r1] # handling[r1]) => handling'[r2] = handling[r2]]_vars

\* C14 witness: the handler is still pending for one request while another
\* request has been handled and its reply published.
C14_Witness ==
    \E q1, q2 \in Calls :
        /\ HandlingOf(q1).state = "running"
        /\ HandlingOf(q2).state = "done"
        /\ \E m \in net : m.chan = ChannelOf(q2) /\ m.body.wf

\* C15: in the download operation every rejection of the authorization
\* query (timeout, decode error, transport error) ends in the 403 response
\* and nothing else, and the file is looked up (404 or the file's bytes)
\* only for a query that resolved with allowed = true.
C15_RejectionIsDenied ==
    \A q \in Downloads :
        /\ res[q] \in {"404", "file"}
           => (outcome[q].kind = "resolved" /\ outcome[q].value = "allowed")
        /\ (res[q] \notin {"none", "pending"}
            /\ outcome[q].kind \in {"timeout", "decode", "transport"})
           => res[q] = "403"
        /\ res[q] \in {"403", "404", "file"} => outcome[q].kind # "none"

\* C15 witness: the authorization query was rejected and the download was
\* answered with 403.
C15_Witness ==
    \E q \in Downloads :
        /\ outcome[q].kind \in {"timeout", "decode", "transport"}
        /\ res[q] = "403"

\* C16 (as claimed): when the check-file-access handler returned
\* {allowed: true} and its reply reached the file service's query before
\* the deadline, the download is not denied: it is answered with the file
\* or with 404, never with 403.
C16_AllowedIsServed ==
    \A q \in Downloads :
        (/\ HandlingOf(q).state = "done"
         /\ HandlingOf(q).result = "allowed"
         /\ msg[q] = [wf |-> TRUE, data |-> JSONstringify("allowed")]
         /\ res[q] \notin {"none", "pending"}) => res[q] \in {"404", "file"}

\* C17: the envelope id comes from one counter of the process, shared by
\* the query path and the listen path: every envelope published in a step
\* carries the counter's value, which that step increments; the counter
\* never decreases and exceeds the id of every envelope in flight, so a new
\* envelope's id is larger than every id assigned before and no two
\* envelopes share an id.
C17_IdsStrictlyIncrease ==
    /\ [](\A m \in net : m.body.wf => m.body.id < messageId)
    /\ [](\A m1, m2 \in net :
             (m1 # m2 /\ m1.body.wf /\ m2.body.wf) => m1.body.id # m2.body.id)
    /\ [][/\ messageId' >= messageId
          /\ \A m \in net' \ net :
                m.body.id = messageId /\ messageId' = messageId + 1]_vars

\* C17 witness: a request and a response are in flight together, the
\* response, published later by the listen path, with the larger id.
C17_Witness ==
    \E m1, m2 \in net :
        /\ m1.chan[1] = "query"
        /\ m2.chan[1] = "response"
        /\ m1.body.id < m2.body.id

\* C18 (as claimed): a query never publishes its request after it has
\* settled: the step in which the pending subscribe completes and the
\* request is published is taken only by a query that is not settled, and a
\* settled query whose subscribe has completed holds no subscription of its
\* reply channel.
C18_NoPublishAfterSettled ==
    [][\A q \in Calls :
          (pc[q] = "subscribing" /\ pc'[q] # "subscribing" /\ settled[q])
          => (messageId' = messageId /\ net' = net /\ ~Subscription(q)')]_vars

\* C19 (as claimed): a request is delivered only to the handler registered
\* for its own (service, event) pair, names containing ':' included: the
\* listener's handler is invoked for a query only when the pair given to
\* queryListen is the pair given to query.
C19_OnlySamePair ==
    \A q \in Calls : HandlingOf(q).state # "none" => bound = asked

\* C20 (as claimed): queryListen called in a process that has not issued a
\* query establishes the connection on demand before it subscribes, so that
\* the binding is active: once queryListen has been called in a live
\* process, a connect is under way or done, and with the connection up the
\* listener is subscribed to its query channel.
C20_ListenConnects ==
    (listenCalled /\ ~crashed)
    => /\ connected \/ \E q \in Calls : pc[q] = "connecting"
       /\ connected => Listening

====
